---- MODULE Spec2Model ----
(***************************************************************************)
(* Model of the MPU-6050 driver class MyMPU (src/MyMPU.py): the register   *)
(* file of the sensor behind the I2C port, the cached accelerometer range, *)
(* and one action per driver method.  Every method runs to completion as   *)
(* one action; an exception (ValueError from validation, a transport error *)
(* raised by the port) propagates and skips the rest of the method.        *)
(***************************************************************************)
EXTENDS Integers, Sequences, FiniteSets, TLC

VARIABLES
    regs,               \* sensor register file: register address -> byte
    accel_full_range,   \* self._accel_full_range
    port,               \* self.port: "none" | "open" | "closed"
    alive,              \* the caller holds a constructed MyMPU object
    trace,              \* bus transport events of the last call, in order
    calls,              \* _write_to_register invocations of the last call
    lastOp,             \* <<method name, argument>> of the last call
    outcome,            \* "ok" or the exception raised by the last call
    result,             \* value returned by the last call ("None" if none)
    ncalls              \* number of method calls made on the object

vars == <<regs, accel_full_range, port, alive, trace, calls, lastOp, outcome,
          result, ncalls>>

---------------------------------------------------------------------------
\* Bounds of the model.

\* Method calls made on a constructed object.
MaxCalls == 2
\* Mode / frequency arguments are drawn from -1..MaxMode.
MaxMode == 8
\* Device addresses are drawn from 103..MaxAddr (0x67 ..).
MaxAddr == 106

ModeInputs == -1..MaxMode
AddrInputs == 103..MaxAddr
\* Register contents found at start-up besides the power-on defaults.
InitBytes == {165, 255}

---------------------------------------------------------------------------
\* Register map (src/MyMPU.py:8-14).

REG_CONFIG == 26
ACCEL_FIRST_REGISTER == 59
PWR_MGMT_1 == 107
PWR_MGMT_2 == 108
SIGNAL_PATH_RESET == 104
ACCEL_CONFIG == 28

Registers == {REG_CONFIG, PWR_MGMT_1, PWR_MGMT_2, SIGNAL_PATH_RESET, ACCEL_CONFIG}

\* MyMPU.ACCEL_SCALE, indexed from 1 (range index + 1); the values are
\* whole-numbered floats.
ACCEL_SCALE == <<16834, 8192, 4096, 2048>>

\* Width of an axis word (bits=16 in get_accelerometer_values).
WordBits == 16

\* Six-byte accelerometer samples [xh, xl, yh, yl, zh, zl] the sensor returns.
Samples ==
    { <<16, 0, 0, 0, 32, 0>>,         \* x = 4096, y = 0, z = 8192
      <<0, 0, 0, 0, 32, 0>>,          \* x = 0, y = 0, z = 8192
      <<32, 0, 0, 0, 0, 0>>,          \* x = 8192, y = 0, z = 0
      <<0, 0, 64, 0, 0, 0>>,          \* x = 0, y = 16384, z = 0
      <<0, 0, 0, 0, 0, 0>>,           \* x = y = z = 0
      <<128, 0, 128, 0, 0, 0>>,       \* x = y = -32768, z = 0
      <<127, 255, 127, 255, 0, 0>>,   \* x = y = 32767, z = 0
      <<255, 255, 0, 0, 255, 255>> }  \* x = z = -1, y = 0

---------------------------------------------------------------------------
\* Python integer operators used by the driver, on non-negative integers.

RECURSIVE BitAnd(_, _)
BitAnd(a, b) ==
    IF a = 0 \/ b = 0 THEN 0
    ELSE (a % 2) * (b % 2) + 2 * BitAnd(a \div 2, b \div 2)

RECURSIVE BitOr(_, _)
BitOr(a, b) ==
    IF a = 0 THEN b
    ELSE IF b = 0 THEN a
    ELSE (IF a % 2 = 1 \/ b % 2 = 1 THEN 1 ELSE 0) + 2 * BitOr(a \div 2, b \div 2)

ShiftLeft(value, n) == value * (2 ^ n)

---------------------------------------------------------------------------
\* The execution of one method call is threaded through a record m:
\*   regs, cache  the register file and self._accel_full_range
\*   port         the state of self.port
\*   trace, calls the events issued so far
\*   err          "ok", or the exception that is propagating
\*   nbus, fail   bus transactions issued so far; the transaction number
\*                that the transport fails (0: none)
\*   ret          the value the method returns

Begin(fail) ==
    [regs |-> regs, cache |-> accel_full_range, port |-> port,
     trace |-> <<>>, calls |-> <<>>, err |-> "ok", nbus |-> 0, fail |-> fail,
     ret |-> "None"]

Event(kind, register, value, good) ==
    [op |-> kind, reg |-> register, val |-> value, ok |-> good]

\* self.port.write_read(register, n=1)[0]
write_read(m, register) ==
    IF m.err # "ok" THEN m
    ELSE IF m.nbus + 1 = m.fail
    THEN [m EXCEPT !.nbus = @ + 1, !.err = "TransportError",
                   !.trace = Append(@, Event("read", register, 1, FALSE))]
    ELSE [m EXCEPT !.nbus = @ + 1,
                   !.trace = Append(@, Event("read", register, 1, TRUE))]

\* self.port.write_read(register, n=count): one transaction reading
\* `count` bytes from `register` on.
write_read_n(m, register, count) ==
    IF m.err # "ok" THEN m
    ELSE IF m.nbus + 1 = m.fail
    THEN [m EXCEPT !.nbus = @ + 1, !.err = "TransportError",
                   !.trace = Append(@, Event("read", register, count, FALSE))]
    ELSE [m EXCEPT !.nbus = @ + 1,
                   !.trace = Append(@, Event("read", register, count, TRUE))]

\* self.port.write_bytes(register, byte)
write_bytes(m, register, byte) ==
    IF m.err # "ok" THEN m
    ELSE IF m.nbus + 1 = m.fail
    THEN [m EXCEPT !.nbus = @ + 1, !.err = "TransportError",
                   !.trace = Append(@, Event("write", register, byte, FALSE))]
    ELSE [m EXCEPT !.nbus = @ + 1,
                   !.regs = [@ EXCEPT ![register] = byte],
                   !.trace = Append(@, Event("write", register, byte, TRUE))]

\* sleep(ms)
sleep(m, ms) ==
    IF m.err # "ok" THEN m
    ELSE [m EXCEPT !.trace = Append(@, Event("sleep", -1, ms, TRUE))]

\* self.port = i2c.I2C(...); self.port.start()
port_start(m) ==
    IF m.err # "ok" THEN m
    ELSE [m EXCEPT !.port = "open",
                   !.trace = Append(@, Event("start", -1, 0, TRUE))]

\* self.port.stop()
port_stop(m) ==
    IF m.err # "ok" THEN m
    ELSE [m EXCEPT !.port = "closed",
                   !.trace = Append(@, Event("stop", -1, 0, TRUE))]

raise(m, exc) == IF m.err # "ok" THEN m ELSE [m EXCEPT !.err = exc]

---------------------------------------------------------------------------
\* The driver's methods (src/MyMPU.py), as transformers of m.

\* Variant: the sign bit is taken to be bit `bits`.
_twos_comp_to_int_wrong_sign_bit(val, bits) ==
    IF BitAnd(val, ShiftLeft(1, bits)) # 0 THEN val - ShiftLeft(1, bits) ELSE val

\* MyMPU._twos_comp_to_int
_twos_comp_to_int(val, bits) ==
    IF BitAnd(val, ShiftLeft(1, bits - 1)) # 0
    THEN val - ShiftLeft(1, bits)
    ELSE val

\* MyMPU._write_to_register: value_read is computed and then `value` is
\* what goes to the port.
_write_to_register(m, register, mask, value, starting_bit) ==
    IF m.err # "ok" THEN m
    ELSE LET m0 == [m EXCEPT !.calls =
                        Append(@, <<register, mask, value, starting_bit>>)]
             m1 == write_read(m0, register)
             value_read == BitOr(BitAnd(m0.regs[register], mask),
                                 ShiftLeft(value, starting_bit))
         IN  write_bytes(m1, register, value)

set_accelerometer_scale_early_cache(m, mode) ==
    IF m.err # "ok" THEN m
    ELSE IF mode \notin {0, 1, 2, 3} THEN raise(m, "ValueError")
    ELSE _write_to_register([m EXCEPT !.cache = mode], ACCEL_CONFIG, 231, mode, 3)

set_accelerometer_scale(m, mode) ==
    IF m.err # "ok" THEN m
    ELSE IF mode \notin {0, 1, 2, 3} THEN raise(m, "ValueError")
    ELSE LET m1 == _write_to_register(m, ACCEL_CONFIG, 231, mode, 3)
         IN  IF m1.err = "ok" THEN [m1 EXCEPT !.cache = mode] ELSE m1

set_digital_low_pass_filter(m, mode) ==
    IF m.err # "ok" THEN m
    ELSE IF mode \notin {0, 1, 2, 3, 4, 5, 6, 7} THEN raise(m, "ValueError")
    ELSE _write_to_register(m, REG_CONFIG, 248, mode, 0)

set_external_sync(m, mode) ==
    IF m.err # "ok" THEN m
    ELSE IF mode \notin {0, 1, 2, 3, 4, 5, 6, 7} THEN raise(m, "ValueError")
    ELSE _write_to_register(m, REG_CONFIG, 199, mode, 3)

set_clock_source(m, mode) ==
    IF m.err # "ok" THEN m
    ELSE IF mode \notin {0, 1, 2, 3, 4, 5, 6, 7} THEN raise(m, "ValueError")
    ELSE _write_to_register(m, PWR_MGMT_1, 248, mode, 0)

\* Variant: the sleep bit is taken to be bit 5.
set_sleep_wrong_bit(m, mode) ==
    IF m.err # "ok" THEN m
    ELSE IF mode \notin {0, 1} THEN raise(m, "ValueError")
    ELSE _write_to_register(m, PWR_MGMT_1, 223, mode, 5)

set_sleep(m, mode) ==
    IF m.err # "ok" THEN m
    ELSE IF mode \notin {0, 1} THEN raise(m, "ValueError")
    ELSE _write_to_register(m, PWR_MGMT_1, 191, mode, 6)

reset_device(m) ==
    LET mode == 1
        m1 == _write_to_register(m, PWR_MGMT_1, 127, mode, 7)
        m2 == sleep(m1, 100)
        m3 == _write_to_register(m2, SIGNAL_PATH_RESET, 248, 7, 0)
    IN  sleep(m3, 100)

_set_temp_on_off(m, mode) ==
    IF m.err # "ok" THEN m
    ELSE IF mode \notin {0, 1} THEN raise(m, "ValueError")
    ELSE _write_to_register(m, PWR_MGMT_1, 247, mode, 3)

set_temp_on(m) == _set_temp_on_off(m, 0)

set_temp_off(m) == _set_temp_on_off(m, 1)

set_cycle_unvalidated(m, mode) ==
    _write_to_register(m, PWR_MGMT_1, 223, mode, 5)

set_cycle(m, mode) ==
    IF m.err # "ok" THEN m
    ELSE IF mode \notin {0, 1} THEN raise(m, "ValueError")
    ELSE _write_to_register(m, PWR_MGMT_1, 223, mode, 5)

set_gyro_axis_on_off(m, mode) ==
    IF m.err # "ok" THEN m
    ELSE IF mode \notin {0, 1, 2, 3, 4, 5, 6, 7} THEN raise(m, "ValueError")
    ELSE _write_to_register(m, PWR_MGMT_2, 248, mode, 0)

_set_low_power_wake_up_frequency(m, mode) ==
    IF m.err # "ok" THEN m
    ELSE IF mode \notin {0, 1, 2, 3} THEN raise(m, "ValueError")
    ELSE _write_to_register(m, PWR_MGMT_2, 63, mode, 6)

\* Variant: the frequency is validated only by the last step.
_set_low_power_late_validation(m, mode, frequency) ==
    IF m.err # "ok" THEN m
    ELSE IF mode \notin {0, 1} THEN raise(m, "ValueError")
    ELSE IF mode = 0
    THEN set_gyro_axis_on_off(set_temp_on(set_sleep(set_cycle(m, 0), 0)), 0)
    ELSE _set_low_power_wake_up_frequency(
             set_gyro_axis_on_off(set_temp_off(set_sleep(set_cycle(m, 1), 0)), 7),
             frequency)

\* Variant: a failed step restores the registers found at entry.
_set_low_power_rollback(m, mode, frequency) ==
    LET r == _set_low_power_late_validation(
                 IF frequency \in {0, 1, 2, 3} THEN m ELSE raise(m, "ValueError"),
                 mode, frequency)
    IN  IF r.err = "TransportError" THEN [r EXCEPT !.regs = m.regs] ELSE r

_set_low_power_accelerometer_only_off_on(m, mode, frequency) ==
    IF m.err # "ok" THEN m
    ELSE IF mode \notin {0, 1} THEN raise(m, "ValueError")
    ELSE IF frequency \notin {0, 1, 2, 3} THEN raise(m, "ValueError")
    ELSE IF mode = 0
    THEN LET m1 == set_cycle(m, 0)
             m2 == set_sleep(m1, 0)
             m3 == set_temp_on(m2)
         IN  set_gyro_axis_on_off(m3, 0)
    ELSE LET m1 == set_cycle(m, 1)
             m2 == set_sleep(m1, 0)
             m3 == set_temp_off(m2)
             m4 == set_gyro_axis_on_off(m3, 7)
         IN  _set_low_power_wake_up_frequency(m4, frequency)

set_low_power_accelerometer_only_off(m) ==
    _set_low_power_accelerometer_only_off_on(m, 0, 0)

set_low_power_accelerometer_only_on(m, frequency) ==
    _set_low_power_accelerometer_only_off_on(m, 1, frequency)

\* Variant: external sync is configured before the accelerometer range.
configure_sensor_to_default_reordered(m) ==
    set_accelerometer_scale(set_external_sync(set_clock_source(m, 1), 0), 1)

configure_sensor_to_default(m) ==
    LET m1 == set_clock_source(m, 1)
        m2 == set_accelerometer_scale(m1, 1)
    IN  set_external_sync(m2, 0)

\* Variant: the port is opened before the address is validated.
init_open_first(m, address) ==
    LET m0 == port_start([m EXCEPT !.cache = 0])
    IN  IF address # 104 /\ address # 105 THEN raise(m0, "ValueError")
        ELSE configure_sensor_to_default(m0)

\* Variant: the default configuration is written before the port is started.
init_configure_first(m, address) ==
    LET m0 == [m EXCEPT !.cache = 0]
    IN  IF address # 104 /\ address # 105 THEN raise(m0, "ValueError")
        ELSE port_start(configure_sensor_to_default(m0))

\* MyMPU.__init__
init(m, address) ==
    LET m0 == [m EXCEPT !.cache = 0]
    IN  IF address # 104 /\ address # 105 THEN raise(m0, "ValueError")
        ELSE configure_sensor_to_default(port_start(m0))

\* MyMPU.close
close(m) == port_stop(m)

\* The axis word (high << 8 | low) of a sample, two's-complement decoded.
AxisValue(high, low) ==
    _twos_comp_to_int(BitOr(ShiftLeft(high, 8), low), WordBits)

\* A float quotient numerator / denominator, kept as the exact fraction.
Quotient(numerator, denominator) == <<numerator, denominator>>

\* Variant: each axis is fetched by a read of its own.
get_accelerometer_values_per_axis(m, sample) ==
    LET m1 == write_read_n(write_read_n(write_read_n(m, 59, 2), 61, 2), 63, 2)
        accel_scale == ACCEL_SCALE[m.cache + 1]
    IN  IF m1.err # "ok" THEN m1
        ELSE [m1 EXCEPT !.ret =
                 [x |-> Quotient(AxisValue(sample[1], sample[2]), accel_scale),
                  y |-> Quotient(AxisValue(sample[3], sample[4]), accel_scale),
                  z |-> Quotient(AxisValue(sample[5], sample[6]), accel_scale)]]

\* Variant: the low byte is taken as the high byte of the word.
get_accelerometer_values_swapped(m, sample) ==
    LET m1 == write_read_n(m, ACCEL_FIRST_REGISTER, 6)
        accel_scale == ACCEL_SCALE[m.cache + 1]
    IN  IF m1.err # "ok" THEN m1
        ELSE [m1 EXCEPT !.ret =
                 [x |-> Quotient(AxisValue(sample[2], sample[1]), accel_scale),
                  y |-> Quotient(AxisValue(sample[4], sample[3]), accel_scale),
                  z |-> Quotient(AxisValue(sample[6], sample[5]), accel_scale)]]

\* MyMPU.get_accelerometer_values, the port returning the bytes `sample`.
get_accelerometer_values(m, sample) ==
    IF m.err # "ok" THEN m
    ELSE LET m1 == write_read_n(m, ACCEL_FIRST_REGISTER, 6)
             values_read == sample
             x == AxisValue(values_read[1], values_read[2])
             y == AxisValue(values_read[3], values_read[4])
             z == AxisValue(values_read[5], values_read[6])
             accel_scale == ACCEL_SCALE[m.cache + 1]
         IN  IF m1.err # "ok" THEN m1
             ELSE [m1 EXCEPT !.ret = [x |-> Quotient(x, accel_scale),
                                      y |-> Quotient(y, accel_scale),
                                      z |-> Quotient(z, accel_scale)]]

\* int(math.atan(numerator / math.sqrt(radicand)) * 180 / 3.14) for
\* radicand > 0, tabulated for the ratios 0, 1/2 and 1 that Samples yield:
\* atan(1/2) * 180 / 3.14 = 26.57.., atan(1) * 180 / 3.14 = 45.02..; int()
\* truncates towards zero.
AtanDegrees(numerator, radicand) ==
    LET sign == IF numerator < 0 THEN -1 ELSE 1
    IN  IF numerator = 0 THEN 0
        ELSE IF numerator * numerator = radicand THEN sign * 45
        ELSE IF 4 * numerator * numerator = radicand THEN sign * 26
        ELSE "untabulated"

\* MyMPU.get_pitch_and_roll: a zero math.sqrt(...) makes the float division
\* raise ZeroDivisionError.  The common scale of x, y, z cancels in the
\* ratios, so they are taken on the numerators.
get_pitch_and_roll(m, sample) ==
    LET m1 == get_accelerometer_values(m, sample)
    IN  IF m1.err # "ok" THEN m1
        ELSE LET x == m1.ret.x[1]
                 y == m1.ret.y[1]
                 z == m1.ret.z[1]
             IN  IF y * y + z * z = 0 \/ x * x + z * z = 0
                 THEN [m1 EXCEPT !.err = "ZeroDivisionError", !.ret = "None"]
                 ELSE [m1 EXCEPT !.ret =
                          [pitch |-> AtanDegrees(x, y * y + z * z),
                           roll |-> AtanDegrees(y, x * x + z * z)]]

---------------------------------------------------------------------------
\* State machine: one action per method of the driver's interface.

PowerOnRegs == [r \in Registers |-> IF r = PWR_MGMT_1 THEN 64 ELSE 0]

Init ==
    /\ regs \in {PowerOnRegs} \cup {[r \in Registers |-> b] : b \in InitBytes}
    /\ accel_full_range = 0
    /\ port = "none"
    /\ alive = FALSE
    /\ trace = <<>>
    /\ calls = <<>>
    /\ lastOp = <<"none", 0>>
    /\ outcome = "ok"
    /\ result = "None"
    /\ ncalls = 0

\* The state left by a call that ran as m.
Commit(name, arg, m) ==
    /\ regs' = m.regs
    /\ accel_full_range' = m.cache
    /\ port' = m.port
    /\ trace' = m.trace
    /\ calls' = m.calls
    /\ lastOp' = <<name, arg>>
    /\ outcome' = m.err
    /\ result' = m.ret

CanCall == alive /\ ncalls < MaxCalls

Method(name, arg, m) ==
    /\ CanCall
    /\ Commit(name, arg, m)
    /\ ncalls' = ncalls + 1
    /\ UNCHANGED alive

\* MyMPU(i2c_name, address)
Construct ==
    \E address \in AddrInputs, fail \in 0..6 :
        /\ ~alive
        /\ LET m == init(Begin(fail), address)
           IN  /\ Commit("init", address, m)
               /\ alive' = (m.err = "ok")
        /\ ncalls' = 0

Close == Method("close", 0, close(Begin(0)))

SetAccelerometerScale ==
    \E mode \in ModeInputs, fail \in 0..2 :
        Method("set_accelerometer_scale", mode,
               set_accelerometer_scale(Begin(fail), mode))

SetDigitalLowPassFilter ==
    \E mode \in ModeInputs, fail \in 0..2 :
        Method("set_digital_low_pass_filter", mode,
               set_digital_low_pass_filter(Begin(fail), mode))

SetExternalSync ==
    \E mode \in ModeInputs, fail \in 0..2 :
        Method("set_external_sync", mode, set_external_sync(Begin(fail), mode))

SetClockSource ==
    \E mode \in ModeInputs, fail \in 0..2 :
        Method("set_clock_source", mode, set_clock_source(Begin(fail), mode))

SetSleep ==
    \E mode \in ModeInputs, fail \in 0..2 :
        Method("set_sleep", mode, set_sleep(Begin(fail), mode))

ResetDevice ==
    \E fail \in 0..4 :
        Method("reset_device", 0, reset_device(Begin(fail)))

SetTempOn ==
    \E fail \in 0..2 : Method("set_temp_on", 0, set_temp_on(Begin(fail)))

SetTempOff ==
    \E fail \in 0..2 : Method("set_temp_off", 0, set_temp_off(Begin(fail)))

SetTempOnOff ==
    \E mode \in ModeInputs, fail \in 0..2 :
        Method("_set_temp_on_off", mode, _set_temp_on_off(Begin(fail), mode))

SetCycle ==
    \E mode \in ModeInputs, fail \in 0..2 :
        Method("set_cycle", mode, set_cycle(Begin(fail), mode))

SetGyroAxisOnOff ==
    \E mode \in ModeInputs, fail \in 0..2 :
        Method("set_gyro_axis_on_off", mode,
               set_gyro_axis_on_off(Begin(fail), mode))

SetLowPowerWakeUpFrequency ==
    \E mode \in ModeInputs, fail \in 0..2 :
        Method("_set_low_power_wake_up_frequency", mode,
               _set_low_power_wake_up_frequency(Begin(fail), mode))

SetLowPowerAccelerometerOnlyOff ==
    \E fail \in 0..8 :
        Method("set_low_power_accelerometer_only_off", 0,
               set_low_power_accelerometer_only_off(Begin(fail)))

SetLowPowerAccelerometerOnlyOn ==
    \E frequency \in ModeInputs, fail \in 0..10 :
        Method("set_low_power_accelerometer_only_on", frequency,
               set_low_power_accelerometer_only_on(Begin(fail), frequency))

GetAccelerometerValues ==
    \E sample \in Samples, fail \in 0..1 :
        Method("get_accelerometer_values", sample,
               get_accelerometer_values(Begin(fail), sample))

GetPitchAndRoll ==
    \E sample \in Samples, fail \in 0..1 :
        Method("get_pitch_and_roll", sample,
               get_pitch_and_roll(Begin(fail), sample))

Next ==
    \/ Construct
    \/ Close
    \/ SetAccelerometerScale
    \/ SetDigitalLowPassFilter
    \/ SetExternalSync
    \/ SetClockSource
    \/ SetSleep
    \/ ResetDevice
    \/ SetTempOn
    \/ SetTempOff
    \/ SetTempOnOff
    \/ SetCycle
    \/ SetGyroAxisOnOff
    \/ SetLowPowerWakeUpFrequency
    \/ SetLowPowerAccelerometerOnlyOff
    \/ SetLowPowerAccelerometerOnlyOn
    \/ GetAccelerometerValues
    \/ GetPitchAndRoll

Spec == Init /\ [][Next]_vars

\* The static method _twos_comp_to_int applied to every 16-bit pattern.
TwosCompToInt ==
    /\ lastOp[1] = "none"
    /\ \E val \in 0..(2 ^ WordBits - 1) :
        /\ lastOp' = <<"_twos_comp_to_int", val>>
        /\ result' = _twos_comp_to_int(val, WordBits)
        /\ outcome' = "ok"
        /\ UNCHANGED <<regs, accel_full_range, port, alive, trace, calls, ncalls>>

SpecDecode == Init /\ [][TwosCompToInt]_vars

---------------------------------------------------------------------------
\* Vocabulary of the properties.

\* The value of the bit-field of `width` bits starting at bit `lo`.
FieldOf(byte, lo, width) == (byte \div (2 ^ lo)) % (2 ^ width)

IsBus(e) == e.op \in {"read", "write"}
IsWrite(e) == e.op = "write"
IsFailed(e) == ~e.ok

\* The bus transactions / the register writes of a trace, in order.
Bus(t) == SelectSeq(t, IsBus)
Writes(t) == SelectSeq(t, IsWrite)

Prefix(t, n) == SubSeq(t, 1, n)

\* The register file r after the successful writes of t.
RECURSIVE Replay(_, _)
Replay(r, t) ==
    IF t = <<>> THEN r
    ELSE LET e == Head(t)
         IN  Replay(IF e.op = "write" /\ e.ok
                    THEN [r EXCEPT ![e.reg] = e.val] ELSE r,
                    Tail(t))

\* The byte a read-modify-write of (mask, value, starting_bit) must write
\* back over the prior byte p: bits under `mask` kept, the field inserted.
Merged(p, mask, value, starting_bit) ==
    BitOr(BitAnd(p, mask), ShiftLeft(value, starting_bit))

\* Documented domain of each setter's mode (setter table of the design).
SetterDomain ==
    [set_clock_source |-> 0..7,
     set_accelerometer_scale |-> 0..3,
     set_digital_low_pass_filter |-> 0..7,
     set_external_sync |-> 0..7,
     set_sleep |-> 0..1,
     set_cycle |-> 0..1,
     _set_temp_on_off |-> 0..1,
     set_gyro_axis_on_off |-> 0..7,
     _set_low_power_wake_up_frequency |-> 0..3]

Setters == DOMAIN SetterDomain

LowPowerOn == "set_low_power_accelerometer_only_on"
LowPowerOff == "set_low_power_accelerometer_only_off"
Composites == {LowPowerOn, LowPowerOff, "reset_device"}

---------------------------------------------------------------------------
\* C1: every byte that _write_to_register writes to the bus equals the
\* prior byte of the register with only the targeted field replaced:
\* (p & mask) | (value << starting_bit), p being the register's content
\* when the read-modify-write starts.
C1_WriteBackIsMerge ==
    [][\A i \in 1..Len(calls') :
         2 * i <= Len(Bus(trace')) =>
            LET c == calls'[i]
                p == Replay(regs, Prefix(Bus(trace'), 2 * i - 2))[c[1]]
            IN  Bus(trace')[2 * i].val = Merged(p, c[2], c[3], c[4])]_vars

\* C2: a setter called with a mode outside its documented domain raises
\* ValueError, issues no bus transaction and changes neither a register
\* nor the cached range index.
C2_InvalidModeRejected ==
    [][(lastOp'[1] \in Setters /\ lastOp'[2] \notin SetterDomain[lastOp'[1]]) =>
          /\ outcome' = "ValueError"
          /\ trace' = <<>>
          /\ calls' = <<>>
          /\ regs' = regs
          /\ accel_full_range' = accel_full_range]_vars

C2_Witness ==
    /\ lastOp = <<"set_gyro_axis_on_off", 8>>
    /\ outcome = "ValueError"
    /\ regs[PWR_MGMT_2] = 255

\* C3: on a constructed driver the cached range index equals the range
\* field (bits 3-4) of the accel-config register as last written.
C3_CacheMirrorsRangeField ==
    alive => accel_full_range = FieldOf(regs[ACCEL_CONFIG], 3, 2)

\* C4: low-power ON issues exactly five register writes, which set in this
\* order cycle=1, sleep=0, temperature-disable=1, gyro standby=7 and wake
\* frequency=f; low-power OFF issues exactly four, which set cycle=0,
\* sleep=0, temperature-disable=0, gyro standby=0.
C4_LowPowerWriteOrder ==
    LET w == Writes(trace)
        Sets(e, register, lo, width, value) ==
            e.reg = register /\ FieldOf(e.val, lo, width) = value
    IN  /\ (lastOp[1] = LowPowerOn /\ outcome = "ok") =>
              /\ Len(w) = 5
              /\ Sets(w[1], PWR_MGMT_1, 5, 1, 1)
              /\ Sets(w[2], PWR_MGMT_1, 6, 1, 0)
              /\ Sets(w[3], PWR_MGMT_1, 3, 1, 1)
              /\ Sets(w[4], PWR_MGMT_2, 0, 3, 7)
              /\ Sets(w[5], PWR_MGMT_2, 6, 2, lastOp[2])
        /\ (lastOp[1] = LowPowerOff /\ outcome = "ok") =>
              /\ Len(w) = 4
              /\ Sets(w[1], PWR_MGMT_1, 5, 1, 0)
              /\ Sets(w[2], PWR_MGMT_1, 6, 1, 0)
              /\ Sets(w[3], PWR_MGMT_1, 3, 1, 0)
              /\ Sets(w[4], PWR_MGMT_2, 0, 3, 0)

\* C5: a completed reset_device consists of a write to power-mgmt-1 with
\* the device-reset bit (bit 7) set, a wait of at least 100 ms, a write to
\* signal-path-reset with bits 0-2 set, and a wait of at least 100 ms, in
\* this order, each write preceded only by the read of its register.
C5_ResetProtocol ==
    (lastOp[1] = "reset_device" /\ outcome = "ok") =>
        /\ Len(trace) = 6
        /\ trace[1].op = "read" /\ trace[1].reg = PWR_MGMT_1
        /\ trace[2].op = "write" /\ trace[2].reg = PWR_MGMT_1
        /\ FieldOf(trace[2].val, 7, 1) = 1
        /\ trace[3].op = "sleep" /\ trace[3].val >= 100
        /\ trace[4].op = "read" /\ trace[4].reg = SIGNAL_PATH_RESET
        /\ trace[5].op = "write" /\ trace[5].reg = SIGNAL_PATH_RESET
        /\ FieldOf(trace[5].val, 0, 3) = 7
        /\ trace[6].op = "sleep" /\ trace[6].val >= 100

\* C6: construction with an address other than 0x68 / 0x69 raises
\* ValueError before any bus activity: the port is not opened and no
\* register is read or written.
C6_BadAddressRejected ==
    [][(lastOp'[1] = "init" /\ lastOp'[2] \notin {104, 105}) =>
          /\ outcome' = "ValueError"
          /\ trace' = <<>>
          /\ calls' = <<>>
          /\ port' = port
          /\ regs' = regs
          /\ ~alive']_vars

C6_Witness ==
    /\ lastOp = <<"init", 103>>
    /\ outcome = "ValueError"
    /\ port = "none"
    /\ ~alive

\* C7: construction with a valid address that meets no transport error
\* opens the port first and then makes exactly the three setter calls
\* clock source = 1, accelerometer range = 1, external sync = 0, in this
\* order; the cached range index is then 1.
C7_ConstructionDefaults ==
    (lastOp[1] = "init" /\ lastOp[2] \in {104, 105}
                        /\ outcome # "TransportError") =>
        /\ outcome = "ok"
        /\ alive
        /\ port = "open"
        /\ trace[1].op = "start"
        /\ \A i \in 2..Len(trace) : IsBus(trace[i])
        /\ calls = << <<PWR_MGMT_1, 248, 1, 0>>,
                      <<ACCEL_CONFIG, 231, 1, 3>>,
                      <<REG_CONFIG, 199, 0, 3>> >>
        /\ [i \in 1..3 |-> Writes(trace)[i].reg]
               = <<PWR_MGMT_1, ACCEL_CONFIG, REG_CONFIG>>
        /\ accel_full_range = 1

C7_Witness ==
    /\ lastOp = <<"init", 105>>
    /\ outcome = "ok"
    /\ Len(calls) = 3
    /\ accel_full_range = 1

\* C8: when a bus transaction of set_accelerometer_scale fails, the call
\* ends with that transport error, the failed transaction is the last one
\* issued (no retry) and the cached range index keeps its value; the index
\* changes only in a call whose bus write succeeded.
C8_CacheKeptOnTransportError ==
    [][lastOp'[1] = "set_accelerometer_scale" =>
          /\ (\E i \in 1..Len(trace') : IsFailed(trace'[i])) =>
                /\ outcome' = "TransportError"
                /\ IsFailed(trace'[Len(trace')])
                /\ Len(trace') <= 2
                /\ accel_full_range' = accel_full_range
          /\ accel_full_range' # accel_full_range =>
                /\ Len(trace') = 2
                /\ trace'[2].op = "write" /\ trace'[2].ok
                /\ trace'[2].reg = ACCEL_CONFIG]_vars

C8_Witness ==
    /\ lastOp = <<"set_accelerometer_scale", 3>>
    /\ outcome = "TransportError"
    /\ Len(trace) = 2
    /\ ~trace[2].ok
    /\ accel_full_range = 1

\* The _write_to_register calls of each composite protocol when complete.
ProtocolCalls(name, arg) ==
    IF name = LowPowerOn
    THEN << <<PWR_MGMT_1, 223, 1, 5>>, <<PWR_MGMT_1, 191, 0, 6>>,
            <<PWR_MGMT_1, 247, 1, 3>>, <<PWR_MGMT_2, 248, 7, 0>>,
            <<PWR_MGMT_2, 63, arg, 6>> >>
    ELSE IF name = LowPowerOff
    THEN << <<PWR_MGMT_1, 223, 0, 5>>, <<PWR_MGMT_1, 191, 0, 6>>,
            <<PWR_MGMT_1, 247, 0, 3>>, <<PWR_MGMT_2, 248, 0, 0>> >>
    ELSE << <<PWR_MGMT_1, 127, 1, 7>>, <<SIGNAL_PATH_RESET, 248, 7, 0>> >>

\* C9: when a bus transaction of a composite protocol (low-power ON,
\* low-power OFF, reset) fails, the call ends with that transport error,
\* nothing is issued after the failed transaction, the steps made are a
\* proper prefix of the protocol, and the registers hold the effect of
\* exactly the writes that succeeded before the failure.
C9_NoRollback ==
    [][(lastOp'[1] \in Composites
            /\ \E i \in 1..Len(trace') : IsFailed(trace'[i])) =>
          LET full == ProtocolCalls(lastOp'[1], lastOp'[2])
              good == Prefix(trace', Len(trace') - 1)
          IN  /\ outcome' = "TransportError"
              /\ IsFailed(trace'[Len(trace')])
              /\ \A i \in 1..(Len(trace') - 1) : trace'[i].ok
              /\ Len(calls') <= Len(full)
              /\ calls' = Prefix(full, Len(calls'))
              /\ Len(Writes(good)) = Len(calls') - 1
              /\ regs' = Replay(regs, good)
              /\ accel_full_range' = accel_full_range]_vars

C9_Witness ==
    /\ lastOp = <<LowPowerOn, 2>>
    /\ outcome = "TransportError"
    /\ Len(calls) = 4
    /\ Len(Writes(trace)) = 4 /\ ~trace[Len(trace)].ok
    /\ regs[PWR_MGMT_1] = 1
    /\ regs[PWR_MGMT_2] = 255

\* C10: low-power ON with a wake frequency outside 0..3 raises ValueError
\* before its first step: no bus transaction, no register changed.
C10_BadFrequencyRejectedFirst ==
    [][(lastOp'[1] = LowPowerOn /\ lastOp'[2] \notin 0..3) =>
          /\ outcome' = "ValueError"
          /\ trace' = <<>>
          /\ calls' = <<>>
          /\ regs' = regs
          /\ accel_full_range' = accel_full_range]_vars

C10_Witness ==
    /\ lastOp = <<LowPowerOn, 4>>
    /\ outcome = "ValueError"
    /\ trace = <<>>
    /\ regs[PWR_MGMT_1] = 1

\* Register and bit-field (lowest bit, width) of each setter (setter table
\* of the design).
SetterField ==
    [set_clock_source |-> <<PWR_MGMT_1, 0, 3>>,
     set_accelerometer_scale |-> <<ACCEL_CONFIG, 3, 2>>,
     set_digital_low_pass_filter |-> <<REG_CONFIG, 0, 3>>,
     set_external_sync |-> <<REG_CONFIG, 3, 3>>,
     set_sleep |-> <<PWR_MGMT_1, 6, 1>>,
     set_cycle |-> <<PWR_MGMT_1, 5, 1>>,
     _set_temp_on_off |-> <<PWR_MGMT_1, 3, 1>>,
     set_gyro_axis_on_off |-> <<PWR_MGMT_2, 0, 3>>,
     _set_low_power_wake_up_frequency |-> <<PWR_MGMT_2, 6, 2>>]

\* The byte with exactly the bits of the field (lo, width) clear.
KeepMask(lo, width) == 255 - ShiftLeft(2 ^ width - 1, lo)

\* C11: a setter called with an in-domain mode that meets no transport
\* error makes exactly one _write_to_register call, on the register and
\* bit-field of the setter table, which issues one bus read followed by one
\* bus write of that register; the cached range index becomes the mode for
\* the accelerometer-range setter and is unchanged for every other setter.
C11_OneReadModifyWrite ==
    [][(lastOp'[1] \in Setters /\ lastOp'[2] \in SetterDomain[lastOp'[1]]
            /\ outcome' # "TransportError") =>
          LET f == SetterField[lastOp'[1]]
          IN  /\ outcome' = "ok"
              /\ calls' = << <<f[1], KeepMask(f[2], f[3]), lastOp'[2], f[2]>> >>
              /\ Len(trace') = 2
              /\ trace'[1].op = "read" /\ trace'[1].reg = f[1] /\ trace'[1].val = 1
              /\ trace'[2].op = "write" /\ trace'[2].reg = f[1]
              /\ \A r \in Registers \ {f[1]} : regs'[r] = regs[r]
              /\ accel_full_range' = IF lastOp'[1] = "set_accelerometer_scale"
                                     THEN lastOp'[2] ELSE accel_full_range]_vars

C11_Witness ==
    /\ lastOp = <<"_set_low_power_wake_up_frequency", 2>>
    /\ outcome = "ok"
    /\ Len(calls) = 1
    /\ accel_full_range = 1

\* The signed value of the 16-bit word high * 256 + low.
Signed16(high, low) ==
    LET v == high * 256 + low
    IN  IF v >= 32768 THEN v - 65536 ELSE v

GetValues == "get_accelerometer_values"

\* C12: when get_accelerometer_values follows a successful
\* set_accelerometer_scale(i), it returns for each axis the quotient of the
\* signed 16-bit word (high << 8) | low by entry i of the scale table; with
\* i = 1 and the bytes [0x10, 0, 0, 0, 0x20, 0] it returns x = 1/2, y = 0
\* and z = 1.
C12_ScaledByRangeSet ==
    [][(lastOp[1] = "set_accelerometer_scale" /\ outcome = "ok"
            /\ lastOp'[1] = GetValues /\ outcome' = "ok") =>
          LET i == lastOp[2]
              b == lastOp'[2]
          IN  /\ result'.x = <<Signed16(b[1], b[2]), ACCEL_SCALE[i + 1]>>
              /\ result'.y = <<Signed16(b[3], b[4]), ACCEL_SCALE[i + 1]>>
              /\ result'.z = <<Signed16(b[5], b[6]), ACCEL_SCALE[i + 1]>>
              /\ (i = 1 /\ b = <<16, 0, 0, 0, 32, 0>>) =>
                    /\ 2 * result'.x[1] = result'.x[2]
                    /\ result'.y[1] = 0
                    /\ result'.z[1] = result'.z[2]]_vars

C12_Witness ==
    /\ lastOp = <<GetValues, <<16, 0, 0, 0, 32, 0>>>>
    /\ outcome = "ok"
    /\ accel_full_range = 3
    /\ result.x = <<4096, 2048>>
    /\ result.z = <<8192, 2048>>

\* C13: _twos_comp_to_int(v, 16) inverts the 16-bit encode n mod 2^16: for
\* every 16-bit pattern v the result n lies in -32768..32767 and encodes
\* back to v; it is v when bit 15 is clear and v - 65536 when it is set.
C13_DecodeInvertsEncode ==
    lastOp[1] = "_twos_comp_to_int" =>
        LET v == lastOp[2]
        IN  /\ result \in -32768..32767
            /\ result % 65536 = v
            /\ result = IF v < 32768 THEN v ELSE v - 65536

C13_Witness ==
    /\ lastOp = <<"_twos_comp_to_int", 32768>>
    /\ result = -32768

GetPitchRoll == "get_pitch_and_roll"

\* C14: get_pitch_and_roll on a sample whose pitch denominator (y and z both
\* zero) or roll denominator (x and z both zero) is zero fails with
\* DomainError; on a sample with x = y = 0 and z > 0 it returns pitch = 0
\* and roll = 0.
C14_ZeroDenominatorIsDomainError ==
    (lastOp[1] = GetPitchRoll /\ outcome # "TransportError") =>
        LET b == lastOp[2]
            x == Signed16(b[1], b[2])
            y == Signed16(b[3], b[4])
            z == Signed16(b[5], b[6])
        IN  /\ ((y = 0 /\ z = 0) \/ (x = 0 /\ z = 0)) => outcome = "DomainError"
            /\ (x = 0 /\ y = 0 /\ z > 0) =>
                  /\ outcome = "ok"
                  /\ result = [pitch |-> 0, roll |-> 0]

\* C15: the scale table holds, in range-index order, 16384, 8192, 4096 and
\* 2048 LSB per g: whenever get_accelerometer_values scales a sample, entry
\* i of the table times 2^(i+1) is 32768 for every index i in 0..3, and the
\* divisor used under the cached index is that entry.
C15_ScaleTableExact ==
    (lastOp[1] = GetValues /\ outcome = "ok") =>
        /\ \A i \in 0..3 : ACCEL_SCALE[i + 1] * (2 ^ (i + 1)) = 32768
        /\ result.x[2] * (2 ^ (accel_full_range + 1)) = 32768

\* C16: get_accelerometer_values issues exactly one bus transaction, a read
\* of 6 bytes at register 0x3B, and no write; it changes no register, not
\* the cached range index and not the port; called again on the same bytes
\* it returns the same value.
C16_ReadIsSideEffectFree ==
    [][lastOp'[1] = GetValues =>
          /\ Len(trace') = 1
          /\ trace'[1].op = "read" /\ trace'[1].reg = 59 /\ trace'[1].val = 6
          /\ calls' = <<>>
          /\ regs' = regs
          /\ accel_full_range' = accel_full_range
          /\ port' = port
          /\ outcome' = IF trace'[1].ok THEN "ok" ELSE "TransportError"
          /\ (lastOp = lastOp' /\ outcome = "ok" /\ outcome' = "ok") =>
                result' = result]_vars

C16_Witness ==
    /\ lastOp = <<GetValues, <<128, 0, 128, 0, 0, 0>>>>
    /\ outcome = "ok"
    /\ ncalls = 2
    /\ result.x = <<-32768, 8192>>
    /\ Len(trace) = 1

\* C17: when a successful setter call on one field of a register is followed
\* by a successful setter call on another field of the same register, the
\* register then holds both modes, each in its field (after
\* set_digital_low_pass_filter(a) then set_external_sync(b): DLPF = a and
\* EXT_SYNC = b).
C17_LaterWriteKeepsEarlierField ==
    [][(lastOp[1] \in Setters /\ outcome = "ok"
            /\ lastOp'[1] \in Setters /\ outcome' = "ok"
            /\ lastOp[1] # lastOp'[1]
            /\ SetterField[lastOp[1]][1] = SetterField[lastOp'[1]][1]) =>
          LET f == SetterField[lastOp[1]]
              g == SetterField[lastOp'[1]]
          IN  /\ FieldOf(regs'[g[1]], g[2], g[3]) = lastOp'[2]
              /\ FieldOf(regs'[f[1]], f[2], f[3]) = lastOp[2]]_vars

\* C18: when low-power ON with frequency f completes, power-mgmt-1 has
\* cycle (bit 5) = 1, sleep (bit 6) = 0, temperature-disable (bit 3) = 1,
\* power-mgmt-2 has gyro standby (bits 0-2) = 7 and wake frequency
\* (bits 6-7) = f, and the clock-source field (power-mgmt-1 bits 0-2) is
\* what it was before the call.
C18_LowPowerOnPostcondition ==
    [][(lastOp'[1] = LowPowerOn /\ outcome' = "ok") =>
          /\ FieldOf(regs'[PWR_MGMT_1], 5, 1) = 1
          /\ FieldOf(regs'[PWR_MGMT_1], 6, 1) = 0
          /\ FieldOf(regs'[PWR_MGMT_1], 3, 1) = 1
          /\ FieldOf(regs'[PWR_MGMT_2], 0, 3) = 7
          /\ FieldOf(regs'[PWR_MGMT_2], 6, 2) = lastOp'[2]
          /\ FieldOf(regs'[PWR_MGMT_1], 0, 3) = FieldOf(regs[PWR_MGMT_1], 0, 3)]_vars

\* C19: when reset_device has completed, the cached range index equals the
\* range field (bits 3-4) held by the accel-config register.
C19_CacheConsistentAfterReset ==
    (lastOp[1] = "reset_device" /\ outcome = "ok") =>
        accel_full_range = FieldOf(regs[ACCEL_CONFIG], 3, 2)

\* C20 (as amended): no register read or write is issued before the port is
\* opened: a call that issued a bus transaction leaves a port that has been
\* opened, and in construction the port's start precedes every bus
\* transaction; close() issues no register read or write, only the stop.
C20_NoBusBeforeOpen ==
    /\ Bus(trace) # <<>> => port # "none"
    /\ lastOp[1] = "init" =>
          \A i \in 1..Len(trace) :
              IsBus(trace[i]) => \E j \in 1..(i - 1) : trace[j].op = "start"
    /\ lastOp[1] = "close" =>
          /\ Len(trace) = 1 /\ trace[1].op = "stop"
          /\ port = "closed"

C20_Witness ==
    /\ lastOp = <<"close", 0>>
    /\ port = "closed"
    /\ ncalls = 2
    /\ Bus(trace) = <<>>
    /\ regs[PWR_MGMT_2] = 7

\* C20 (as claimed): bus transactions are issued only between open and
\* close: besides the above, a call made when close() has closed the port
\* issues no register read or write.
C20_BusOnlyWhileOpen ==
    /\ C20_NoBusBeforeOpen
    /\ port = "closed" => Bus(trace) = <<>>

====
